---------------------------- MODULE Spec2Model ----------------------------
(***************************************************************************)
(* Arabic text shaping adapter (babeldoc/format/pdf/document_il/utils/     *)
(* rtl.py): the script and language gates, the memoised shaping engine     *)
(* ArabicTextShaper.shape_text under functools.lru_cache, and the three    *)
(* integration adapters that write shaped text back into document objects. *)
(*                                                                         *)
(* A Python value is a record [type, v]: v is the sequence of code points  *)
(* of a str, the digits of an int or bool, the items of a list.  A text is *)
(* therefore a sequence of Unicode scalar values, and every range test of  *)
(* the source is the same comparison on the same numbers:                  *)
(*   U+0600 = 1536   U+06FF = 1791    Arabic block                         *)
(*   U+FB50 = 64336  U+FDFF = 65023   Arabic Presentation Forms-A          *)
(*   U+FE70 = 65136  U+FEFF = 65279   Arabic Presentation Forms-B          *)
(* Code points used by the inputs:                                         *)
(*   72 'H' (bidi class L)            1548 U+060C ARABIC COMMA (class CS)  *)
(*   1576 U+0628 BEH, forms U+FE8F..U+FE92 = 65167..65170 (iso fin ini med)*)
(*   1662 U+067E PEH, forms U+FB56..U+FB59 = 64342..64345 (iso fin ini med)*)
(***************************************************************************)
EXTENDS Integers, Sequences, FiniteSets, TLC

VARIABLES cache, hist, inflight, last, paragraph, composition, run

vars == <<cache, hist, inflight, last, paragraph, composition, run>>

---------------------------------------------------------------------------
(* Bounds of the model.                                                    *)

\* lru_cache(maxsize=1024) at rtl.py:30, scaled down so that eviction happens.
maxsize == 2
\* Concurrent callers of the shared shaper.
NumWorkers == 2
\* Longest text run drawn as input of the shaping pipeline.
MaxLen == 3
\* Longest language tag drawn besides the documented examples.
MaxTagLen == 4

---------------------------------------------------------------------------
(* Python values.                                                          *)

StrVal(s) == [type |-> "str", v |-> s]
NoneVal == [type |-> "NoneType", v |-> <<>>]
IntVal(n) == [type |-> "int", v |-> <<n>>]
BoolVal(b) == [type |-> "bool", v |-> <<IF b THEN 1 ELSE 0>>]
ListVal(s) == [type |-> "list", v |-> s]
\* An instance of a class whose __str__ raises.
Opaque == [type |-> "object", v |-> <<>>]

IsStr(x) == x.type = "str"
IsNumber(x) == x.type \in {"int", "bool"}

\* bool(x): NoneVal, 0, False, "" and [] are falsy, any other value is truthy.
Truthy(x) ==
    CASE x.type = "NoneType" -> FALSE
      [] IsNumber(x) -> x.v[1] # 0
      [] x.type \in {"str", "list"} -> Len(x.v) > 0
      [] OTHER -> TRUE

\* hash(x) succeeds: a list is unhashable.
Hashable(x) == x.type # "list"

\* x == y: numbers compare by value (1 == True), other values by type and content.
PyEq(x, y) ==
    IF IsNumber(x) /\ IsNumber(y) THEN x.v = y.v
    ELSE x.type = y.type /\ x.v = y.v

\* The result of a call: a returned value or a raised exception (exc), which
\* external capabilities the call invoked (norm, reshape, bidi) and which of
\* them raised inside it (failed).
Returned(x, n, r, b, f) ==
    [ret |-> x, exc |-> "none", norm |-> n, reshape |-> r, bidi |-> b,
     failed |-> f]
Raised(e) ==
    [ret |-> NoneVal, exc |-> e, norm |-> FALSE, reshape |-> FALSE,
     bidi |-> FALSE, failed |-> "none"]
Plain(x) == Returned(x, FALSE, FALSE, FALSE, "none")

RECURSIVE JoinItems(_)
\* ", ".join of the single-digit items of a list.
JoinItems(s) ==
    IF Len(s) = 0 THEN <<>>
    ELSE IF Len(s) = 1 THEN <<48 + s[1]>>
    ELSE <<48 + s[1], 44, 32>> \o JoinItems(Tail(s))

\* str(x) raises: the __str__ of the value does.
StrRaises(x) == x.type = "object"

\* str(x), for a value whose __str__ returns.
PyStr(x) ==
    CASE x.type = "int" -> StrVal(<<48 + x.v[1]>>)
      [] x.type = "bool" ->
           IF x.v[1] = 1 THEN StrVal(<<84, 114, 117, 101>>)
           ELSE StrVal(<<70, 97, 108, 115, 101>>)
      [] x.type = "list" -> StrVal(<<91>> \o JoinItems(x.v) \o <<93>>)
      [] x.type = "NoneType" -> StrVal(<<78, 111, 110, 101>>)
      [] OTHER -> x

---------------------------------------------------------------------------
(* Script detection.                                                       *)

InArabicBlock(c) == 1536 <= c /\ c <= 1791
InPresentationFormsA(c) == 64336 <= c /\ c <= 65023
InPresentationFormsB(c) == 65136 <= c /\ c <= 65279

\* The condition of rtl.py:43.
ShapeGate(s) ==
    \/ \E i \in 1..Len(s) : InArabicBlock(s[i])
    \/ \E i \in 1..Len(s) : InPresentationFormsA(s[i])

\* The script half of the condition of rtl.py:183.
CompositionScriptGate(s) == \E i \in 1..Len(s) : InArabicBlock(s[i])

is_arabic_shaped(x) ==
    IF ~Truthy(x) THEN FALSE
    ELSE \E i \in 1..Len(x.v) :
           InPresentationFormsA(x.v[i]) \/ InPresentationFormsB(x.v[i])

---------------------------------------------------------------------------
(* Language tags.                                                          *)

\* str.lower() on one code point: 'A'..'Z' map to 'a'..'z'.
LowerChar(c) == IF 65 <= c /\ c <= 90 THEN c + 32 ELSE c
Lower(s) == [i \in 1..Len(s) |-> LowerChar(s[i])]

StartsWith(s, p) == Len(s) >= Len(p) /\ SubSeq(s, 1, Len(p)) = p
EndsWith(s, p) ==
    Len(s) >= Len(p) /\ SubSeq(s, Len(s) - Len(p) + 1, Len(s)) = p

\* The classification with the test for a trailing "-ar" subtag left out.
is_arabic_language_code_no_suffix(lang_code) ==
    IF ~Truthy(lang_code) THEN FALSE
    ELSE LET lc == Lower(lang_code.v)
         IN lc = <<97, 114>> \/ StartsWith(lc, <<97, 114, 45>>)

is_arabic_language_code(lang_code) ==
    IF ~Truthy(lang_code) THEN FALSE
    ELSE LET lc == Lower(lang_code.v)
         IN \/ lc = <<97, 114>>
            \/ StartsWith(lc, <<97, 114, 45>>)
            \/ EndsWith(lc, <<45, 97, 114>>)


---------------------------------------------------------------------------
(* The external capabilities, on the code points the inputs use.           *)

\* unicodedata.normalize('NFKC', .): a presentation form goes back to its
\* base letter; the other code points used here are their own NFKC form.
NormalizeChar(c) ==
    IF 65167 <= c /\ c <= 65170 THEN 1576
    ELSE IF 64342 <= c /\ c <= 64345 THEN 1662
    ELSE c
NFKC(s) == [i \in 1..Len(s) |-> NormalizeChar(s[i])]

\* The letters of the reshaper's table among the inputs (BEH and PEH, both
\* dual-joining) and the isolated form of each; the final, initial and
\* medial forms follow it in the code chart.
IsLetter(c) == c \in {1576, 1662}
IsolatedForm(c) == IF c = 1576 THEN 65167 ELSE 64342

\* ArabicReshaper.reshape with use_unshaped_instead_of_isolated = False: a
\* letter takes the form its neighbours select, anything else is copied.
ReshapeAt(s, i) ==
    IF ~IsLetter(s[i]) THEN s[i]
    ELSE LET prev == i > 1 /\ IsLetter(s[i - 1])
             next == i < Len(s) /\ IsLetter(s[i + 1])
         IN IsolatedForm(s[i]) +
              (IF prev /\ next THEN 3
               ELSE IF prev THEN 1
               ELSE IF next THEN 2
               ELSE 0)
reshape(s) == [i \in 1..Len(s) |-> ReshapeAt(s, i)]

\* Bidi classes: 'H' is L, the Arabic comma is CS and resolves as a neutral
\* (rule W6), every Arabic letter and presentation form is AL.
IsL(c) == c = 72
IsNeutral(c) == c = 1548
Reverse(s) == [i \in 1..Len(s) |-> s[Len(s) + 1 - i]]

\* The resolved level under base direction R: 2 for L, and for a neutral
\* whose nearest strong characters on both sides are L (rule N1); 1 for the
\* rest (AL, and neutrals that take the embedding direction, rule N2).
Level(s, i) ==
    IF IsL(s[i]) THEN 2
    ELSE IF ~IsNeutral(s[i]) THEN 1
    ELSE LET before == {j \in 1..(i - 1) : ~IsNeutral(s[j])}
             after == {j \in (i + 1)..Len(s) : ~IsNeutral(s[j])}
         IN IF /\ before # {}
               /\ after # {}
               /\ IsL(s[CHOOSE j \in before : \A k \in before : k <= j])
               /\ IsL(s[CHOOSE j \in after : \A k \in after : j <= k])
            THEN 2 ELSE 1

\* Rule L2, first pass: every maximal run at level 2 is reversed in place.
ReverseRunAt(s, i) ==
    IF Level(s, i) < 2 THEN s[i]
    ELSE LET a == CHOOSE j \in 1..i :
                    /\ \A k \in j..i : Level(s, k) = 2
                    /\ (j = 1 \/ Level(s, j - 1) < 2)
             b == CHOOSE j \in i..Len(s) :
                    /\ \A k \in i..j : Level(s, k) = 2
                    /\ (j = Len(s) \/ Level(s, j + 1) < 2)
         IN s[a + b - i]

\* bidi.algorithm.get_display(., base_dir='R'): rule L2, second pass, the
\* whole line (level 1 and above) is reversed.
get_display(s) == Reverse([i \in 1..Len(s) |-> ReverseRunAt(s, i)])

---------------------------------------------------------------------------
(* ArabicTextShaper.shape_text: the function under the decorator.          *)

\* An except branch that logs and raises again.
shaping_failed_reraise(text, n, r, b, f) ==
    [ret |-> NoneVal, exc |-> "Exception", norm |-> n, reshape |-> r,
     bidi |-> b, failed |-> f]

\* The except branch: the warning is logged, the original text returned.

shaping_failed(text, n, r, b, f) == Returned(text, n, r, b, f)

\* The try block.  fault names the external capability that raises in this
\* call, "none" when both work.
shape_gated_always(text, fault) ==
    IF fault = "reshape"
    THEN shaping_failed(text, TRUE, TRUE, FALSE, "reshape")
    ELSE IF fault = "bidi"
    THEN shaping_failed(text, TRUE, TRUE, TRUE, "bidi")
    ELSE Returned(StrVal(get_display(reshape(NFKC(text.v)))),
                  TRUE, TRUE, TRUE, "none")

shape_gated(text, fault) ==
    IF ShapeGate(text.v)
    THEN IF fault = "reshape"
         THEN shaping_failed(text, TRUE, TRUE, FALSE, "reshape")
         ELSE IF fault = "bidi"
         THEN shaping_failed(text, TRUE, TRUE, TRUE, "bidi")
         ELSE Returned(StrVal(get_display(reshape(NFKC(text.v)))),
                       TRUE, TRUE, TRUE, "none")
    ELSE Plain(text)

shape_text_body(text, fault) ==
    IF ~Truthy(text) THEN Plain(text)
    ELSE IF ~IsStr(text)
    THEN IF text.type # "NoneType"
         THEN IF StrRaises(text) THEN Raised("Exception")
              ELSE Plain(PyStr(text))
         ELSE Plain(StrVal(<<>>))
    ELSE shape_gated(text, fault)

---------------------------------------------------------------------------
(* functools.lru_cache(maxsize) around shape_text.  The cache is the       *)
(* sequence of its entries, least recently used first.                     *)

LruFind(c, key) ==
    IF \E i \in 1..Len(c) : PyEq(c[i].key, key)
    THEN CHOOSE i \in 1..Len(c) : PyEq(c[i].key, key)
    ELSE 0

Without(c, i) == SubSeq(c, 1, i - 1) \o SubSeq(c, i + 1, Len(c))

\* A hit that leaves the entry where it is.
LruHit_in_place(c, i) == c

\* A hit: the entry becomes the most recently used.
LruHit(c, i) == Append(Without(c, i), c[i])

\* A store that evicts the newest entry when the cache is full.
LruStore_evict_newest(c, key, result) ==
    IF LruFind(c, key) # 0 THEN c
    ELSE IF Len(c) >= maxsize
    THEN Append(SubSeq(c, 1, Len(c) - 1), [key |-> key, result |-> result])
    ELSE Append(c, [key |-> key, result |-> result])

\* After a miss: nothing when the key was stored meanwhile, else the new
\* entry, in place of the least recently used one when the cache is full.
LruStore(c, key, result) ==
    IF LruFind(c, key) # 0 THEN c
    ELSE IF Len(c) >= maxsize
    THEN Append(Tail(c), [key |-> key, result |-> result])
    ELSE Append(c, [key |-> key, result |-> result])

\* The entry a store evicts, NoneVal when it evicts none.
LruEvicted(c, key) ==
    IF LruFind(c, key) = 0 /\ Len(c) >= maxsize THEN c[1].key ELSE NoneVal

\* The order of last use of every key ever served or stored (no eviction).
Touch(h, key) ==
    LET i == IF \E j \in 1..Len(h) : PyEq(h[j], key)
             THEN CHOOSE j \in 1..Len(h) : PyEq(h[j], key)
             ELSE 0
    IN IF i = 0 THEN Append(h, key) ELSE Append(Without(h, i), h[i])

Position(h, key) ==
    IF \E j \in 1..Len(h) : PyEq(h[j], key)
    THEN CHOOSE j \in 1..Len(h) : PyEq(h[j], key)
    ELSE 0

---------------------------------------------------------------------------
(* State.                                                                  *)
(*   cache        the entries of shape_text's lru_cache, oldest use first  *)
(*   hist         every key ever served or stored, in order of last use    *)
(*                (history variable, kept under Spec)                      *)
(*   inflight     per worker, the call of shape_text it is inside          *)
(*   last         what the most recently completed operation did           *)
(*   paragraph    a document paragraph handed to the paragraph adapter     *)
(*   composition  a paragraph composition handed to the composition adapter*)
(*   run          the text run a shaping pass is applied to, and its shape *)

Workers == 1..NumWorkers
Faults == {"none", "reshape", "bidi"}
Idle == [busy |-> FALSE]

\* The texts the workers shape: "BEH BEH", "H", "BEH comma", an isolated PEH
\* presentation form.
EngineTexts ==
    {StrVal(<<1576, 1576>>), StrVal(<<72>>), StrVal(<<1576, 1548>>),
     StrVal(<<64342>>)}

NoParagraph == [present |-> FALSE]
NoComposition == [present |-> FALSE]

\* What a call of shape_text did: r is its result, hit tells whether the
\* cache served it; returned and warm are taken when the call starts:
\* returned, an earlier call with an equal key has been served or stored;
\* warm, moreover fewer than maxsize other keys were served or stored since.
Observation(op, arg, hit, r, evicted, returned, warm) ==
    [op |-> op, arg |-> arg, hit |-> hit, ret |-> r.ret, exc |-> r.exc,
     norm |-> r.norm, reshape |-> r.reshape, bidi |-> r.bidi,
     failed |-> r.failed, evicted |-> evicted, returned |-> returned,
     warm |-> warm]

Returned_before(h, key) == Position(h, key) # 0
Warm(h, key) ==
    Position(h, key) # 0 /\ Len(h) - Position(h, key) < maxsize

InitEngine ==
    /\ cache = <<>>
    /\ hist = <<>>
    /\ inflight = [w \in Workers |-> Idle]
    /\ last = [op |-> "none"]
    /\ paragraph = NoParagraph
    /\ composition = NoComposition
    /\ run = [stage |-> "none"]

---------------------------------------------------------------------------
(* The shared engine under concurrent callers.  The wrapper's lookup and   *)
(* its store are each atomic; the wrapped function runs between them       *)
(* without the cache's lock.                                               *)

\* The lookup finds the key: the stored result is returned.
ServeFromCache(w, t) ==
    /\ ~inflight[w].busy
    /\ LruFind(cache, t) # 0
    /\ cache' = LruHit(cache, LruFind(cache, t))
    /\ hist' = Touch(hist, t)
    /\ last' = Observation("shape_text", t, TRUE,
                           Plain(cache[LruFind(cache, t)].result), NoneVal,
                           Returned_before(hist, t), Warm(hist, t))
    /\ UNCHANGED <<inflight, paragraph, composition, run>>

\* The lookup misses: the worker enters the wrapped function.
MissInCache(w, t) ==
    /\ ~inflight[w].busy
    /\ LruFind(cache, t) = 0
    /\ inflight' = [inflight EXCEPT ![w] =
                      [busy |-> TRUE, arg |-> t,
                       returned |-> Returned_before(hist, t),
                       warm |-> Warm(hist, t)]]
    /\ UNCHANGED <<cache, hist, last, paragraph, composition, run>>

\* The wrapped function returns: the result is stored and returned.
StoreAndReturn(w, fault) ==
    /\ inflight[w].busy
    /\ LET t == inflight[w].arg
           r == shape_text_body(t, fault)
       IN /\ cache' = IF r.exc = "none" THEN LruStore(cache, t, r.ret)
                       ELSE cache
          /\ hist' = IF r.exc = "none" /\ LruFind(cache, t) = 0
                      THEN Touch(hist, t) ELSE hist
          /\ last' = Observation("shape_text", t, FALSE, r,
                                 LruEvicted(cache, t),
                                 inflight[w].returned, inflight[w].warm)
    /\ inflight' = [inflight EXCEPT ![w] = Idle]
    /\ UNCHANGED <<paragraph, composition, run>>

Next ==
    \/ \E w \in Workers, t \in EngineTexts : ServeFromCache(w, t)
    \/ \E w \in Workers, t \in EngineTexts : MissInCache(w, t)
    \/ \E w \in Workers, fault \in Faults : StoreAndReturn(w, fault)

Spec == InitEngine /\ [][Next]_vars

---------------------------------------------------------------------------
(* One caller at a time: a call of the decorated shape_text from lookup to *)
(* return, and the functions built on it.                                  *)

\* _shaper.shape_text(x): the key is hashed first (TypeError for a list), a
\* hit returns the stored result, a miss runs the function and stores what
\* it returns; an exception of the function leaves the cache as it was.
CachedCall(c, x, fault) ==
    IF ~Hashable(x)
    THEN [r |-> Raised("TypeError"), cache |-> c, hit |-> FALSE,
          called |-> TRUE]
    ELSE IF LruFind(c, x) # 0
    THEN [r |-> Plain(c[LruFind(c, x)].result),
          cache |-> LruHit(c, LruFind(c, x)), hit |-> TRUE, called |-> TRUE]
    ELSE LET r == shape_text_body(x, fault)
         IN [r |-> r,
             cache |-> IF r.exc = "none" THEN LruStore(c, x, r.ret) ELSE c,
             hit |-> FALSE, called |-> TRUE]

\* A path that never reaches shape_text.
NotCalled(c, x) ==
    [r |-> Plain(x), cache |-> c, hit |-> FALSE, called |-> FALSE]

\* shape_arabic(text)
shape_arabic(c, text, fault) == CachedCall(c, text, fault)

\* apply_arabic_shaping_to_text(text, lang_code), debug_print left False.
apply_arabic_shaping_to_text(c, text, lang_code, fault) ==
    IF ~Truthy(text) THEN NotCalled(c, text)
    ELSE IF is_arabic_language_code(lang_code)
    THEN LET call == CachedCall(c, text, fault)
         IN IF call.r.exc # "none"
            THEN [call EXCEPT !.r = Plain(text)]
            ELSE call
    ELSE NotCalled(c, text)

\* What a sequential operation did: its input, the tag it was given, the
\* object it was applied to, and the call of shape_text inside it if any.
Outcome(op, arg, lang, before, call, c) ==
    [op |-> op, arg |-> arg, lang |-> lang, before |-> before,
     called |-> call.called, hit |-> call.hit, touched |-> call.cache # c,
     ret |-> call.r.ret, exc |-> call.r.exc, norm |-> call.r.norm,
     reshape |-> call.r.reshape, bidi |-> call.r.bidi,
     failed |-> call.r.failed]

\* The values handed to shape_arabic and apply_arabic_shaping_to_text:
\* "", "H", "BEH BEH", "BEH comma", None, 0, 1, True, [], [1] and an object
\* whose __str__ raises.
CallValues ==
    {StrVal(<<>>), StrVal(<<72>>), StrVal(<<1576, 1576>>),
     StrVal(<<1576, 1548>>), NoneVal, IntVal(0), IntVal(1), BoolVal(TRUE),
     ListVal(<<>>), ListVal(<<1>>), Opaque}

\* The tags handed to the adapters: "ar", "en", "en-ar", None.
CallTags ==
    {StrVal(<<97, 114>>), StrVal(<<101, 110>>),
     StrVal(<<101, 110, 45, 97, 114>>), NoneVal}

ShapeArabic(x, fault) ==
    /\ LET call == shape_arabic(cache, x, fault)
       IN /\ cache' = call.cache
          /\ last' = Outcome("shape_arabic", x, NoneVal, NoneVal, call, cache)
    /\ UNCHANGED <<hist, inflight, paragraph, composition, run>>

ApplyToText(x, lang, fault) ==
    /\ LET call == apply_arabic_shaping_to_text(cache, x, lang, fault)
       IN /\ cache' = call.cache
          /\ last' = Outcome("apply_to_text", x, lang, NoneVal, call, cache)
    /\ UNCHANGED <<hist, inflight, paragraph, composition, run>>

NextCalls ==
    \/ \E x \in CallValues, fault \in Faults : ShapeArabic(x, fault)
    \/ \E x \in CallValues, lang \in CallTags, fault \in Faults :
         ApplyToText(x, lang, fault)

SpecCalls == InitEngine /\ [][NextCalls]_vars

---------------------------------------------------------------------------
(* The adapters on document objects.  A paragraph is None (present FALSE)  *)
(* or an object that may lack the attribute unicode; a composition is None *)
(* or an object that may lack pdf_same_style_unicode_characters, which is  *)
(* None (some FALSE) or an object with a unicode buffer.                   *)

Paragraph(u) == [present |-> TRUE, has_unicode |-> TRUE, unicode |-> u]
BareParagraph == [present |-> TRUE, has_unicode |-> FALSE]
Composition(u) ==
    [present |-> TRUE, has_chars |-> TRUE,
     chars |-> [some |-> TRUE, unicode |-> u]]
EmptyComposition ==
    [present |-> TRUE, has_chars |-> TRUE, chars |-> [some |-> FALSE]]
BareComposition == [present |-> TRUE, has_chars |-> FALSE]

\* The early return of rtl.py:161.
ParagraphHasText(p) ==
    p.present /\ p.has_unicode /\ Truthy(p.unicode)

\* The early returns of rtl.py:174 and rtl.py:178.
CompositionHasText(k) ==
    k.present /\ k.has_chars /\ k.chars.some /\ Truthy(k.chars.unicode)

\* The paragraph gate widened to the composition's.
paragraph_applies_or_script(unicode, lang_code) ==
    is_arabic_language_code(lang_code) \/ CompositionScriptGate(unicode.v)

\* rtl.py:164
paragraph_applies(unicode, lang_code) == is_arabic_language_code(lang_code)

\* rtl.py:183
composition_applies(unicode, lang_code) ==
    is_arabic_language_code(lang_code) \/ CompositionScriptGate(unicode.v)

\* apply_arabic_shaping_to_paragraph: the paragraph afterwards and the call.
apply_arabic_shaping_to_paragraph(c, p, lang_code, fault) ==
    IF ~ParagraphHasText(p) THEN [obj |-> p, call |-> NotCalled(c, NoneVal)]
    ELSE IF paragraph_applies(p.unicode, lang_code)
    THEN LET call == CachedCall(c, p.unicode, fault)
         IN [obj |-> IF call.r.exc = "none" /\ ~PyEq(p.unicode, call.r.ret)
                     THEN [p EXCEPT !.unicode = call.r.ret]
                     ELSE p,
             call |-> call]
    ELSE [obj |-> p, call |-> NotCalled(c, NoneVal)]

\* apply_arabic_shaping_to_composition: an exception of the call is logged.
apply_arabic_shaping_to_composition(c, k, lang_code, fault) ==
    IF ~CompositionHasText(k) THEN [obj |-> k, call |-> NotCalled(c, NoneVal)]
    ELSE IF composition_applies(k.chars.unicode, lang_code)
    THEN LET call == CachedCall(c, k.chars.unicode, fault)
         IN IF call.r.exc # "none"
            THEN [obj |-> k, call |-> [call EXCEPT !.r = Plain(NoneVal)]]
            ELSE [obj |-> IF ~PyEq(k.chars.unicode, call.r.ret)
                          THEN [k EXCEPT !.chars.unicode = call.r.ret]
                          ELSE k,
                  call |-> call]
    ELSE [obj |-> k, call |-> NotCalled(c, NoneVal)]

\* The unicode buffers documents start with: None, "", "H", "BEH BEH",
\* "BEH comma", "H BEH", an isolated PEH form (Forms-A) and an isolated BEH
\* form (Forms-B).
DocBuffers ==
    {NoneVal, StrVal(<<>>), StrVal(<<72>>), StrVal(<<1576, 1576>>),
     StrVal(<<1576, 1548>>), StrVal(<<72, 1576>>), StrVal(<<64342>>),
     StrVal(<<65167>>)}

Paragraphs ==
    {NoParagraph, BareParagraph} \cup {Paragraph(u) : u \in DocBuffers}
Compositions ==
    {NoComposition, BareComposition, EmptyComposition}
        \cup {Composition(u) : u \in DocBuffers}

InitDoc ==
    /\ cache = <<>>
    /\ hist = <<>>
    /\ inflight = [w \in Workers |-> Idle]
    /\ last = [op |-> "none"]
    /\ run = [stage |-> "none"]
    /\ \/ paragraph \in Paragraphs /\ composition = NoComposition
       \/ paragraph = NoParagraph /\ composition \in Compositions

ApplyToParagraph(lang, fault) ==
    /\ LET done == apply_arabic_shaping_to_paragraph(cache, paragraph, lang,
                                                     fault)
       IN /\ paragraph' = done.obj
          /\ cache' = done.call.cache
          /\ last' = Outcome("apply_to_paragraph",
                             IF ParagraphHasText(paragraph)
                             THEN paragraph.unicode ELSE NoneVal,
                             lang, paragraph, done.call, cache)
    /\ UNCHANGED <<hist, inflight, composition, run>>

ApplyToComposition(lang, fault) ==
    /\ LET done == apply_arabic_shaping_to_composition(cache, composition,
                                                       lang, fault)
       IN /\ composition' = done.obj
          /\ cache' = done.call.cache
          /\ last' = Outcome("apply_to_composition",
                             IF CompositionHasText(composition)
                             THEN composition.chars.unicode ELSE NoneVal,
                             lang, composition, done.call, cache)
    /\ UNCHANGED <<hist, inflight, paragraph, run>>

NextDoc ==
    \/ \E lang \in CallTags, fault \in Faults : ApplyToParagraph(lang, fault)
    \/ \E lang \in CallTags, fault \in Faults : ApplyToComposition(lang, fault)

SpecDoc == InitDoc /\ [][NextDoc]_vars

---------------------------------------------------------------------------
(* The shaping pipeline as a function of the text run: every run of at     *)
(* most MaxLen code points is shaped, and its shape is shaped again.       *)

Alphabet ==
    {72, 1548, 1576, 1662} \cup (65167..65170) \cup (64342..64345)

RECURSIVE SeqsUpTo(_, _)
SeqsUpTo(S, n) ==
    IF n = 0 THEN {<<>>}
    ELSE LET shorter == SeqsUpTo(S, n - 1)
         IN shorter \cup {Append(s, c) : s \in shorter, c \in S}

InitShape ==
    /\ cache = <<>>
    /\ hist = <<>>
    /\ inflight = [w \in Workers |-> Idle]
    /\ last = [op |-> "none"]
    /\ paragraph = NoParagraph
    /\ composition = NoComposition
    /\ \E s \in SeqsUpTo(Alphabet, MaxLen) :
         run = [stage |-> "input", text |-> StrVal(s)]

\* shape_arabic(T)
ShapeOnce ==
    /\ run.stage = "input"
    /\ LET call == shape_arabic(cache, run.text, "none")
       IN /\ cache' = call.cache
          /\ run' = [stage |-> "once", text |-> run.text, once |-> call.r.ret]
          /\ last' = Outcome("shape_arabic", run.text, NoneVal, NoneVal, call,
                             cache)
    /\ UNCHANGED <<hist, inflight, paragraph, composition>>

\* shape_arabic(shape_arabic(T))
ShapeTwice ==
    /\ run.stage = "once"
    /\ LET call == shape_arabic(cache, run.once, "none")
       IN /\ cache' = call.cache
          /\ run' = [stage |-> "twice", text |-> run.text, once |-> run.once,
                     twice |-> call.r.ret]
          /\ last' = Outcome("shape_arabic", run.once, NoneVal, NoneVal, call,
                             cache)
    /\ UNCHANGED <<hist, inflight, paragraph, composition>>

NextShape == ShapeOnce \/ ShapeTwice

SpecShape == InitShape /\ [][NextShape]_vars

---------------------------------------------------------------------------
(* Language-tag classification as a function of the tag.                   *)

\* 'a', 'r', 'A', 'R', '-', 'e'
TagAlphabet == {97, 114, 65, 82, 45, 101}

\* None, every tag of at most MaxTagLen characters, and the documented
\* examples "en", "en-ar", "EN-AR", "ar-en", "fr-ca".
Tags ==
    {NoneVal} \cup {StrVal(s) : s \in SeqsUpTo(TagAlphabet, MaxTagLen)}
      \cup {StrVal(<<101, 110>>), StrVal(<<101, 110, 45, 97, 114>>),
            StrVal(<<69, 78, 45, 65, 82>>), StrVal(<<97, 114, 45, 101, 110>>),
            StrVal(<<102, 114, 45, 99, 97>>)}

InitLang ==
    /\ cache = <<>>
    /\ hist = <<>>
    /\ inflight = [w \in Workers |-> Idle]
    /\ last = [op |-> "none"]
    /\ paragraph = NoParagraph
    /\ composition = NoComposition
    /\ \E tag \in Tags : run = [stage |-> "tag", tag |-> tag]

\* is_arabic_language_code(tag)
Classify ==
    /\ run.stage = "tag"
    /\ run' = [run EXCEPT !.stage = "classified"]
    /\ last' = [op |-> "is_arabic_language_code", arg |-> run.tag,
                ret |-> is_arabic_language_code(run.tag)]
    /\ UNCHANGED <<cache, hist, inflight, paragraph, composition>>

NextLang == Classify

SpecLang == InitLang /\ [][NextLang]_vars

---------------------------------------------------------------------------
(* Properties.                                                             *)

IsShapeCall == last.op \in {"shape_arabic", "apply_to_text"}
NoExternal == ~last.norm /\ ~last.reshape /\ ~last.bidi

\* C1 (SpecCalls): when the external reshape call or the external bidi
\* reorder call raises inside a call of shape_text, reached directly through
\* shape_arabic or through apply_arabic_shaping_to_text, the call raises
\* nothing and returns exactly the text it was given.
C1_FailureContained ==
    (IsShapeCall /\ last.failed # "none")
        => last.exc = "none" /\ last.ret = last.arg

\* C1 witness: shape_arabic on an Arabic text whose bidi reordering raised.
C1_Witness ==
    /\ last.op = "shape_arabic"
    /\ last.failed = "bidi"
    /\ last.arg = StrVal(<<1576, 1576>>)
    /\ last.ret = last.arg

\* C2 (SpecCalls): a text with no code point in U+0600-U+06FF and none in
\* U+FB50-U+FDFF comes back exactly as given, and neither normalization nor
\* the reshaper nor the bidi reorderer is invoked, in every cache state and
\* under every language tag.
C2_NonArabicPassthrough ==
    (IsShapeCall /\ IsStr(last.arg) /\ ~ShapeGate(last.arg.v))
        => last.exc = "none" /\ last.ret = last.arg /\ NoExternal

\* C2 witness: "H" under the tag "ar" reached shape_text, missed the cache
\* and came back unchanged.
C2_Witness ==
    /\ last.op = "apply_to_text"
    /\ last.arg = StrVal(<<72>>)
    /\ last.lang = StrVal(<<97, 114>>)
    /\ last.called /\ ~last.hit /\ last.touched
    /\ last.ret = last.arg

\* C3 (Spec), as claimed: a call served from the cache returns the value a
\* miss computes for the same text.
C3_CacheTransparent ==
    (last.op = "shape_text" /\ last.hit)
        => last.ret = shape_text_body(last.arg, "none").ret

\* C4 (SpecShape), as claimed: for a text that holds Arabic-range code
\* points, shaping the shape of the text changes nothing.
C4_Idempotent ==
    (run.stage = "twice" /\ ShapeGate(run.text.v)) => run.twice = run.once

\* C5 (SpecDoc): under a tag that is_arabic_language_code rejects, or with
\* the paragraph or its buffer absent or empty, the paragraph adapter leaves
\* the paragraph as it was, does not call shape_text and leaves the cache
\* untouched.
C5_ParagraphNoop ==
    (/\ last.op = "apply_to_paragraph"
     /\ \/ ~is_arabic_language_code(last.lang)
        \/ ~last.before.present
        \/ ~last.before.has_unicode
        \/ ~Truthy(last.before.unicode))
        => paragraph = last.before /\ ~last.called /\ ~last.touched

\* C5 witness: a paragraph holding Arabic code points under the tag "en".
C5_Witness ==
    /\ last.op = "apply_to_paragraph"
    /\ last.lang = StrVal(<<101, 110>>)
    /\ last.before = Paragraph(StrVal(<<1576, 1576>>))
    /\ paragraph = last.before

\* C6 (SpecDoc), as claimed: on a composition with a non-empty buffer,
\* shape_text runs if and only if the tag denotes Arabic or the buffer holds
\* a code point in U+0600-U+06FF or in U+FB50-U+FDFF; its result is written
\* back when it differs, and the buffer is unchanged when neither holds.
C6_CompositionGate ==
    (last.op = "apply_to_composition" /\ CompositionHasText(last.before))
        => /\ last.called <=>
                \/ is_arabic_language_code(last.lang)
                \/ ShapeGate(last.before.chars.unicode.v)
           /\ ~last.called => composition = last.before
           /\ (last.called /\ last.exc = "none")
                => composition.chars.unicode = last.ret

\* The classification of C7, read off the characters of the tag.
C7_DenotesArabic(tag) ==
    /\ tag # NoneVal
    /\ LET s == tag.v
           n == Len(tag.v)
           a(i) == s[i] \in {97, 65}
           r(i) == s[i] \in {114, 82}
       IN \/ n = 2 /\ a(1) /\ r(2)
          \/ n >= 3 /\ a(1) /\ r(2) /\ s[3] = 45
          \/ n >= 3 /\ s[n - 2] = 45 /\ a(n - 1) /\ r(n)

\* C7 (SpecLang): is_arabic_language_code(tag) is true exactly when the
\* lower-cased tag is "ar", starts with "ar-" or ends with "-ar"; an empty
\* or null tag gives false; "ar", "AR", "en-ar", "EN-AR", "ar-en" are
\* accepted and "", null, "en", "fr-ca" rejected.
C7_LanguageTag ==
    last.op = "is_arabic_language_code"
        => /\ last.ret = C7_DenotesArabic(last.arg)
           /\ last.arg \in {StrVal(<<97, 114>>), StrVal(<<65, 82>>),
                            StrVal(<<101, 110, 45, 97, 114>>),
                            StrVal(<<69, 78, 45, 65, 82>>),
                            StrVal(<<97, 114, 45, 101, 110>>)} => last.ret
           /\ last.arg \in {StrVal(<<>>), NoneVal, StrVal(<<101, 110>>),
                            StrVal(<<102, 114, 45, 99, 97>>)} => ~last.ret

\* C7 witness: "EN-AR" was classified as Arabic.
C7_Witness ==
    /\ last.op = "is_arabic_language_code"
    /\ last.arg = StrVal(<<69, 78, 45, 65, 82>>)
    /\ last.ret

\* C8 (SpecCalls), as claimed: shape_text on a non-text value raises nothing
\* and returns the value's string representation, or the empty string for
\* null and for a value that has none.
C8_NonTextHandled ==
    (last.op = "shape_arabic" /\ ~IsStr(last.arg))
        => /\ last.exc = "none"
           /\ last.ret = IF last.arg = NoneVal \/ StrRaises(last.arg)
                         THEN StrVal(<<>>)
                         ELSE PyStr(last.arg)

\* C9 (Spec), as claimed, in its weakest reading (the earlier call has not
\* only started but returned): once shape_text(T) has been called, a later
\* call with the same T invokes neither the reshaper nor the reorderer.
C9_ServedOnceCalled ==
    (last.op = "shape_text" /\ last.returned)
        => ~last.reshape /\ ~last.bidi

\* C9 (Spec), amended: a call of shape_text(T) that starts after an earlier
\* call with the same T has been served or stored, and before maxsize other
\* texts have been served or stored since that last use of T, is served from
\* the cache and invokes no external capability.
C9_ServedWhileCached ==
    (last.op = "shape_text" /\ last.warm) => last.hit /\ NoExternal

\* C9 witness: an Arabic text served from the cache after other texts were
\* shaped in between and one entry had been evicted.
C9_Witness ==
    /\ last.op = "shape_text"
    /\ last.warm /\ last.hit
    /\ ShapeGate(last.arg.v)
    /\ Len(hist) > maxsize
    /\ NoExternal

\* C10 (Spec): under every interleaving of the workers the cache holds at
\* most maxsize entries, no key twice, and they are the most recently used
\* keys in order of use (a hit is a use); so the entry a store evicts from a
\* full cache is the least recently used one.
C10_BoundedLru ==
    /\ Len(cache) <= maxsize
    /\ \A i, j \in 1..Len(cache) :
         i # j => ~PyEq(cache[i].key, cache[j].key)
    /\ Len(cache) = IF Len(hist) < maxsize THEN Len(hist) ELSE maxsize
    /\ \A i \in 1..Len(cache) :
         cache[i].key = hist[Len(hist) - Len(cache) + i]
    /\ (last.op = "shape_text" /\ last.evicted # NoneVal)
         => /\ ~last.hit
            /\ Len(cache) = maxsize
            /\ last.evicted = hist[Len(hist) - maxsize]

\* C10 witness: a store into a full cache evicted an entry while another
\* worker was inside shape_text.
C10_Witness ==
    /\ last.op = "shape_text"
    /\ last.evicted # NoneVal
    /\ Len(cache) = maxsize
    /\ \E w \in Workers : inflight[w].busy

=============================================================================
